---- MODULE Spec2Model ----
(***************************************************************************)
(* PyDDM parameter-dependence framework: Dependence (ddm/models/base.py)   *)
(* and the Bound family (ddm/models/bound.py).                             *)
(*                                                                         *)
(* Class-level state (default_parameters, required_parameters) and one     *)
(* instance under construction / mutation (self) plus a comparison         *)
(* operand (other).  Python values are tagged with their type so that      *)
(* value equality (1 == 1.0) and repr ("1" vs "1.0") are distinct          *)
(* notions, as they are in the interpreter.                                *)
(***************************************************************************)
EXTENDS Integers, Sequences, FiniteSets, TLC

VARIABLES default_parameters, required_parameters, self, other, last

vars == <<default_parameters, required_parameters, self, other, last>>

(* ------------------------------ bounds --------------------------------- *)

\* largest integer parameter value passed to a constructor or setattr
MaxNum == 2
\* largest query time passed to get_bound
MaxT == 3

(* --------------------------- Python values ----------------------------- *)

PyInt(n) == [kind |-> "int", num |-> n]
PyFloat(n) == [kind |-> "float", num |-> n]
NoneVal == [kind |-> "NoneType", num |-> 0]
EmptyList == [kind |-> "list", num |-> 0]

\* parameter values handed in by callers: small ints, and the float 1.0
Values == {PyInt(n) : n \in 1..MaxNum} \cup {PyFloat(1)}

\* value equality of the interpreter: numbers compare by numeric value
\* whatever their type (1 == 1.0), a list only equals a list
PyValEq(v, w) ==
    IF v.kind \in {"int", "float"} /\ w.kind \in {"int", "float"}
    THEN v.num = w.num
    ELSE v.kind = w.kind /\ v.num = w.num

Digits == <<"0", "1", "2", "3", "4", "5", "6", "7", "8", "9">>

RECURSIVE NatStr(_)
NatStr(n) == IF n < 10 THEN Digits[n + 1]
             ELSE NatStr(n \div 10) \o Digits[(n % 10) + 1]

IntStr(n) == IF n < 0 THEN "-" \o NatStr(0 - n) ELSE NatStr(n)

\* value.__repr__(): an int prints its digits, a float with an integral
\* value prints the digits followed by ".0"
PyRepr(v) ==
    CASE v.kind = "int" -> IntStr(v.num)
      [] v.kind = "float" -> IntStr(v.num) \o ".0"
      [] v.kind = "list" -> "[]"
      [] OTHER -> "None"

(* ------------------------------ dicts ---------------------------------- *)

EmptyDict == [n \in {} |-> NoneVal]

\* d.update(e): keys of e are added to d, values of e win
DictUpdate(d, e) ==
    [n \in (DOMAIN d) \cup (DOMAIN e) |-> IF n \in DOMAIN e THEN e[n] ELSE d[n]]

\* d == e on dicts: same keys, values equal under ==
DictEq(d, e) ==
    /\ DOMAIN d = DOMAIN e
    /\ \A n \in DOMAIN d : PyValEq(d[n], e[n])

Range(s) == {s[i] : i \in DOMAIN s}

\* rank of a name in Python's string order (code points: "B" < "e" < "r" < "t")
Ord(n) ==
    CASE n = "B" -> 1
      [] n = "extra" -> 2
      [] n = "required_conditions" -> 3
      [] n = "t" -> 4
      [] OTHER -> 5

RECURSIVE Insert(_, _)
Insert(x, s) ==
    IF s = <<>> THEN <<x>>
    ELSE IF Ord(x) <= Ord(Head(s)) THEN <<x>> \o s
    ELSE <<Head(s)>> \o Insert(x, Tail(s))

\* sorted(list)
RECURSIVE Sorted(_)
Sorted(s) == IF s = <<>> THEN <<>> ELSE Insert(Head(s), Sorted(Tail(s)))

\* sorted(d.keys())
RECURSIVE SortedKeys(_)
SortedKeys(S) ==
    IF S = {} THEN <<>>
    ELSE LET m == CHOOSE x \in S : \A y \in S : Ord(x) <= Ord(y)
         IN  <<m>> \o SortedKeys(S \ {m})

(* --------------------------- class table ------------------------------- *)

\* BoundLinearDefaultB is a variant written by a model author the way the
\* Dependence docstring describes:
\*     class BoundLinearDefaultB(BoundCollapsingLinear):
\*         required_parameters = ["t", "B"]
\*         default_parameters = {"B": 1}
Classes == {"Dependence", "Bound", "BoundConstant", "BoundCollapsingLinear",
            "BoundLinearDefaultB"}

\* method resolution order, most derived class first
Mro(c) ==
    CASE c = "Dependence" -> <<"Dependence">>
      [] c = "Bound" -> <<"Bound", "Dependence">>
      [] c = "BoundConstant" -> <<"BoundConstant", "Bound", "Dependence">>
      [] c = "BoundCollapsingLinear" ->
            <<"BoundCollapsingLinear", "Bound", "Dependence">>
      [] c = "BoundLinearDefaultB" ->
            <<"BoundLinearDefaultB", "BoundCollapsingLinear", "Bound", "Dependence">>

\* class variables each class body assigns
OwnAttrs(c) ==
    CASE c = "Dependence" -> {}
      [] c = "Bound" -> {"depname"}
      [] c = "BoundConstant" -> {"name", "required_parameters"}
      [] c = "BoundCollapsingLinear" -> {"name", "required_parameters"}
      [] c = "BoundLinearDefaultB" -> {"required_parameters", "default_parameters"}

\* hasattr(self, a) for a class variable a
HasAttr(c, a) == \E i \in DOMAIN Mro(c) : a \in OwnAttrs(Mro(c)[i])

\* the class whose variable an attribute lookup on an instance of c finds
Owner(c, a) ==
    LET i == CHOOSE j \in DOMAIN Mro(c) :
                /\ a \in OwnAttrs(Mro(c)[j])
                /\ \A k \in 1..(j - 1) : a \notin OwnAttrs(Mro(c)[k])
    IN  Mro(c)[i]

\* isinstance(x, d) for x an instance of c
IsSubclass(c, d) == d \in Range(Mro(c))

\* self.name
AlgName(c) ==
    CASE Owner(c, "name") = "BoundConstant" -> "constant"
      [] Owner(c, "name") = "BoundCollapsingLinear" -> "collapsing_linear"

\* the class variables as the class bodies declare them
DeclaredRequired ==
    [c \in {"BoundConstant", "BoundCollapsingLinear", "BoundLinearDefaultB"} |->
        CASE c = "BoundConstant" -> <<"B">>
          [] c = "BoundCollapsingLinear" -> <<"B", "t">>
          [] c = "BoundLinearDefaultB" -> <<"t", "B">>]

DeclaredDefaults ==
    [c \in {"BoundLinearDefaultB"} |-> [n \in {"B"} |-> PyInt(1)]]

\* concrete variants: classes an instance of which can exist
Variants == {c \in Classes : /\ HasAttr(c, "depname")
                            /\ HasAttr(c, "name")
                            /\ HasAttr(c, "required_parameters")}

\* self.required_parameters
Required(c) == required_parameters[Owner(c, "required_parameters")]

(* ----------------------------- instances ------------------------------- *)

NoInstance == [cls |-> "NoneType", dict |-> EmptyDict]

\* keyword names callers pass
KwargNames == {"B", "t", "extra"}

\* attribute names callers try to set or delete
AttrNames == {"B", "t", "extra", "required_conditions"}

\* slopes handed to a constructor ("should be greater than zero")
Slopes == {PyInt(1), PyInt(2)}

\* values a constructor is given for a keyword
KwargValues(n) == IF n = "B" THEN Values ELSE IF n = "t" THEN Slopes ELSE {PyInt(1)}

\* keyword mappings passed to a constructor
Kwargs ==
    UNION {{k \in [S -> Values \cup Slopes] : \A n \in S : k[n] \in KwargValues(n)} :
           S \in SUBSET KwargNames}

\* keyword mappings a constructor of class c is called with (a class that is
\* not a variant fails before it looks at them)
KwargsFor(c) == IF c \in Variants THEN Kwargs ELSE {EmptyDict}

\* every instance a successful construction or assignment can leave behind
Instances ==
    UNION {{[cls |-> c,
             dict |-> DictUpdate([n \in {"required_conditions"} |-> EmptyList], d)] :
                d \in [Range(DeclaredRequired[Owner(c, "required_parameters")]) -> Values]} :
           c \in Variants}

(* ------------------------ Dependence methods --------------------------- *)

\* __setattr__ without its guard: every name is assigned
Dependence_setattr_Unguarded(obj, name, val) ==
    [err |-> "none", dict |-> DictUpdate(obj.dict, [n \in {name} |-> val])]

\* Dependence.__setattr__(self, name, val): the object's __dict__ after the
\* call and the exception it raises
Dependence_setattr(obj, name, val) ==
    IF name \in Range(Required(obj.cls))
    THEN [err |-> "none",
          dict |-> DictUpdate(obj.dict, [n \in {name} |-> val])]
    ELSE [err |-> "LookupError", dict |-> obj.dict]

\* __delattr__ that deletes instead of raising
Dependence_delattr_Deleting(obj, name) ==
    [err |-> "none",
     dict |-> [n \in (DOMAIN obj.dict) \ {name} |-> obj.dict[n]]]

\* Dependence.__delattr__(self, name)
Dependence_delattr(obj, name) ==
    [err |-> "LookupError", dict |-> obj.dict]

\* for key, value in args.items(): setattr(self, key, value)
RECURSIVE BindAll(_, _, _)
BindAll(obj, args, keys) ==
    IF keys = {} THEN [err |-> "none", dict |-> obj.dict]
    ELSE LET key == CHOOSE k \in keys : TRUE
             r == Dependence_setattr(obj, key, args[key])
         IN  IF r.err # "none" THEN r
             ELSE BindAll([cls |-> obj.cls, dict |-> r.dict], args, keys \ {key})

InitResult(err, msg, dict, dp, passed, expected) ==
    [err |-> err, msg |-> msg, dict |-> dict, default_parameters |-> dp,
     passed_args |-> passed, expected_args |-> expected]

\* Dependence.__init__(self, **kwargs) on a fresh object of class c, with dp
\* the class-level default_parameters dicts at the time of the call
Dependence_init(c, kwargs, dp) ==
    IF ~HasAttr(c, "depname")
    THEN InitResult("AssertionError", "Dependence needs a parameter name",
                    EmptyDict, dp, <<>>, <<>>)
    ELSE IF ~HasAttr(c, "name")
    THEN InitResult("AssertionError", "Dependence classes need a name",
                    EmptyDict, dp, <<>>, <<>>)
    ELSE IF ~HasAttr(c, "required_parameters")
    THEN InitResult("AssertionError", "Dependence needs a list of required params",
                    EmptyDict, dp, <<>>, <<>>)
    ELSE
    LET hasdef == HasAttr(c, "default_parameters")
        \* args = self.default_parameters; args.update(kwargs): args IS the
        \* class-level dict, the update is made in place
        args == IF hasdef
                THEN DictUpdate(dp[Owner(c, "default_parameters")], kwargs)
                ELSE kwargs
        dp1 == IF hasdef
               THEN [dp EXCEPT ![Owner(c, "default_parameters")] = args]
               ELSE dp
        dict0 == IF ~HasAttr(c, "required_conditions")
                 THEN [n \in {"required_conditions"} |-> EmptyList]
                 ELSE EmptyDict
        passed_args == SortedKeys(DOMAIN args)
        expected_args == Sorted(Required(c))
    IN  IF passed_args # expected_args
        THEN InitResult("AssertionError", "Provided %s arguments, expected %s",
                        dict0, dp1, passed_args, expected_args)
        ELSE LET r == BindAll([cls |-> c, dict |-> dict0], args, DOMAIN args)
             IN  InitResult(r.err, "", r.dict, dp1, passed_args, expected_args)

\* __eq__ without the isinstance test
Dependence_eq_AnyClass(a, b) == DictEq(a.dict, b.dict)

\* Dependence.__eq__(self, other)
Dependence_eq(a, b) ==
    IF IsSubclass(b.cls, a.cls) THEN DictEq(a.dict, b.dict) ELSE FALSE

\* the expression  a == b : when type(b) is a proper subclass of type(a) the
\* interpreter calls b.__eq__(a) first, otherwise a.__eq__(b); __eq__ here
\* never returns NotImplemented, so the first call decides
PyEq(a, b) ==
    IF a.cls # b.cls /\ IsSubclass(b.cls, a.cls)
    THEN Dependence_eq(b, a)
    ELSE Dependence_eq(a, b)

\* the loop of __repr__ with the separator appended after every pair
RECURSIVE ReprParams_TrailingSep(_, _, _)
ReprParams_TrailingSep(obj, rp, i) ==
    IF i > Len(rp) THEN ""
    ELSE rp[i] \o "=" \o PyRepr(obj.dict[rp[i]]) \o ", "
         \o ReprParams_TrailingSep(obj, rp, i + 1)

\* the loop of __repr__ from the i-th required parameter on
RECURSIVE ReprParams(_, _, _)
ReprParams(obj, rp, i) ==
    IF i > Len(rp) THEN ""
    ELSE rp[i] \o "=" \o PyRepr(obj.dict[rp[i]])
         \o (IF rp[i] # rp[Len(rp)] THEN ", " ELSE "")
         \o ReprParams(obj, rp, i + 1)

\* Dependence.__repr__(self)
Dependence_repr(obj) ==
    LET params == IF AlgName(obj.cls) # ""
                  THEN ReprParams(obj, Required(obj.cls), 1)
                  ELSE ""
    IN  obj.cls \o "(" \o params \o ")"

\* Dependence.__str__(self)
Dependence_str(obj) == Dependence_repr(obj)

\* hash of a string: a function of the string alone; distinct strings are
\* taken to have distinct hashes
StrHash(s) == [digest_of |-> s]

\* Dependence.__hash__(self)
Dependence_hash(obj) == StrHash(Dependence_repr(obj))

(* --------------------------- Bound methods ----------------------------- *)

\* int/float arithmetic: the result is a float as soon as one operand is
Arith(kinds, n) == IF "float" \in kinds THEN PyFloat(n) ELSE PyInt(n)

\* max(x, 0.): the first argument is kept unless the second is greater
PyMax(x, y) == IF y.num > x.num THEN y ELSE x

\* BoundConstant.get_bound(self, t, conditions)
BoundConstant_get_bound(obj, t) == obj.dict["B"]

\* get_bound without the clamp at zero
BoundCollapsingLinear_get_bound_Unclamped(obj, t) ==
    LET B == obj.dict["B"]
        slope == obj.dict["t"]
        prod == Arith({slope.kind, t.kind}, slope.num * t.num)
    IN  Arith({B.kind, prod.kind}, B.num - prod.num)

\* BoundCollapsingLinear.get_bound(self, t, conditions)
BoundCollapsingLinear_get_bound(obj, t) ==
    LET B == obj.dict["B"]
        slope == obj.dict["t"]
        prod == Arith({slope.kind, t.kind}, slope.num * t.num)
        diff == Arith({B.kind, prod.kind}, B.num - prod.num)
    IN  PyMax(diff, PyFloat(0))

\* obj.get_bound(t, conditions): the method the class of obj resolves to
get_bound(obj, t) ==
    IF IsSubclass(obj.cls, "BoundCollapsingLinear")
    THEN BoundCollapsingLinear_get_bound(obj, t)
    ELSE BoundConstant_get_bound(obj, t)

(* ------------------------- calls and their record --------------------- *)

\* the record of the most recent call: its arguments, the exception raised,
\* what it returned and the receiver as it was before the call
NoCall ==
    [op |-> "none", cls |-> "", kwargs |-> EmptyDict, name |-> "",
     val |-> NoneVal, t |-> 0, lhs |-> NoInstance, rhs |-> NoInstance,
     err |-> "none", msg |-> "", passed_args |-> <<>>, expected_args |-> <<>>,
     before |-> NoInstance, obj |-> EmptyDict,
     eq_result |-> FALSE, str_result |-> "", hash_result |-> StrHash(""),
     num_result |-> NoneVal]

Init ==
    /\ default_parameters = DeclaredDefaults
    /\ required_parameters = DeclaredRequired
    /\ self = NoInstance
    /\ other = NoInstance
    /\ last = NoCall

\* self = c(**kwargs); no instance is handed out when __init__ raises
Construct(c, kwargs) ==
    LET r == Dependence_init(c, kwargs, default_parameters)
    IN  /\ default_parameters' = r.default_parameters
        /\ self' = IF r.err = "none" THEN [cls |-> c, dict |-> r.dict]
                   ELSE NoInstance
        /\ last' = [NoCall EXCEPT !.op = "__init__", !.cls = c,
                                  !.kwargs = kwargs, !.err = r.err,
                                  !.msg = r.msg,
                                  !.passed_args = r.passed_args,
                                  !.expected_args = r.expected_args,
                                  !.obj = r.dict]
        /\ UNCHANGED <<required_parameters, other>>

\* self.name = val
SetAttr(name, val) ==
    /\ self # NoInstance
    /\ LET r == Dependence_setattr(self, name, val)
       IN  /\ self' = [self EXCEPT !.dict = r.dict]
           /\ last' = [NoCall EXCEPT !.op = "__setattr__", !.cls = self.cls,
                                     !.name = name, !.val = val,
                                     !.err = r.err, !.before = self]
    /\ UNCHANGED <<default_parameters, required_parameters, other>>

\* del self.name
DelAttr(name) ==
    /\ self # NoInstance
    /\ LET r == Dependence_delattr(self, name)
       IN  /\ self' = [self EXCEPT !.dict = r.dict]
           /\ last' = [NoCall EXCEPT !.op = "__delattr__", !.cls = self.cls,
                                     !.name = name, !.err = r.err,
                                     !.before = self]
    /\ UNCHANGED <<default_parameters, required_parameters, other>>

Next == \E c \in Classes : \E kwargs \in KwargsFor(c) : Construct(c, kwargs)

\* constructions, one after the other, class-level state included
Spec == Init /\ [][Next]_vars

(* ------------------ mutation of a constructed instance ----------------- *)

\* an instance already built, the class variables as declared
InitMutate ==
    /\ default_parameters = DeclaredDefaults
    /\ required_parameters = DeclaredRequired
    /\ self \in Instances
    /\ other = NoInstance
    /\ last = NoCall

NextMutate ==
    \/ \E name \in AttrNames, val \in Values : SetAttr(name, val)
    \/ \E name \in AttrNames : DelAttr(name)

\* attribute assignments and deletions on a built instance
SpecMutate == InitMutate /\ [][NextMutate]_vars

(* ------------------- queries on constructed instances ------------------ *)

\* two instances already built, the class variables as declared
InitQuery ==
    /\ default_parameters = DeclaredDefaults
    /\ required_parameters = DeclaredRequired
    /\ self \in Instances
    /\ other \in Instances
    /\ last = NoCall

Operands == {<<self, other>>, <<other, self>>, <<self, self>>}

\* a == b
Eq(a, b) ==
    /\ last' = [NoCall EXCEPT !.op = "==", !.lhs = a, !.rhs = b,
                              !.eq_result = PyEq(a, b)]
    /\ UNCHANGED <<default_parameters, required_parameters, self, other>>

\* repr(a)
Repr(a) ==
    /\ last' = [NoCall EXCEPT !.op = "__repr__", !.lhs = a,
                              !.str_result = Dependence_repr(a)]
    /\ UNCHANGED <<default_parameters, required_parameters, self, other>>

\* str(a)
Str(a) ==
    /\ last' = [NoCall EXCEPT !.op = "__str__", !.lhs = a,
                              !.str_result = Dependence_str(a)]
    /\ UNCHANGED <<default_parameters, required_parameters, self, other>>

\* hash(a)
Hash(a) ==
    /\ last' = [NoCall EXCEPT !.op = "__hash__", !.lhs = a,
                              !.hash_result = Dependence_hash(a)]
    /\ UNCHANGED <<default_parameters, required_parameters, self, other>>

\* self.get_bound(t, {})
GetBound(t) ==
    /\ last' = [NoCall EXCEPT !.op = "get_bound", !.cls = self.cls, !.t = t,
                              !.before = self,
                              !.num_result = get_bound(self, PyInt(t))]
    /\ UNCHANGED <<default_parameters, required_parameters, self, other>>

NextQuery ==
    \/ \E ab \in Operands : Eq(ab[1], ab[2])
    \/ \E a \in {self, other} : Repr(a)
    \/ \E a \in {self, other} : Str(a)
    \/ \E a \in {self, other} : Hash(a)
    \/ \E t \in 0..MaxT : GetBound(t)

\* equality, rendering, hashing and bound evaluation of built instances
SpecQuery == InitQuery /\ [][NextQuery]_vars

(* ------------------------------ properties ----------------------------- *)

\* names of the parameters the class of an instance requires
ParamNames(c) == Range(Required(c))

\* names given a default by the class body of c
DeclaredDefaultOf(c) ==
    IF HasAttr(c, "default_parameters")
    THEN DeclaredDefaults[Owner(c, "default_parameters")]
    ELSE EmptyDict

\* the last call was the construction  c(**kwargs)  of a variant
Constructed == last.op = "__init__" /\ last.cls \in Variants

\* C1: whatever constructions came before, a construction of a variant with
\* declared defaults that omits a defaulted parameter yields an instance
\* holding the declared default for it, and one that supplies a value yields
\* an instance holding the supplied value.
C1_DefaultsApply ==
    (/\ Constructed
     /\ HasAttr(last.cls, "default_parameters")
     /\ last.err = "none")
    => \A p \in DOMAIN DeclaredDefaultOf(last.cls) :
          self.dict[p] = IF p \in DOMAIN last.kwargs
                         THEN last.kwargs[p]
                         ELSE DeclaredDefaultOf(last.cls)[p]

\* C2: a construction, successful or failed, leaves the class-level
\* default_parameters mapping and required_parameters list as they were.
C2_NoClassSideEffect ==
    [][last'.op = "__init__" =>
          /\ default_parameters' = default_parameters
          /\ required_parameters' = required_parameters]_vars

\* C3: in every reachable state, constructing a variant with a mapping whose
\* names are exactly required_parameters succeeds and binds those values.
C3_ExactMatchSucceeds ==
    (Constructed /\ DOMAIN last.kwargs = ParamNames(last.cls))
    => /\ last.err = "none"
       /\ self.cls = last.cls
       /\ \A p \in ParamNames(last.cls) : self.dict[p] = last.kwargs[p]

\* C4: a construction whose names, the declared defaults merged in, are a
\* strict subset or a strict superset of required_parameters fails with the
\* parameter-mismatch error and binds none of the supplied parameters.
C4_MismatchFails ==
    LET names == (DOMAIN last.kwargs) \cup (DOMAIN DeclaredDefaultOf(last.cls))
        req == ParamNames(last.cls)
    IN  (/\ Constructed
         /\ names # req
         /\ (names \subseteq req \/ req \subseteq names))
        => /\ last.err = "AssertionError"
           /\ last.msg = "Provided %s arguments, expected %s"
           /\ (DOMAIN last.obj) \cap (DOMAIN last.kwargs) = {}
           /\ self = NoInstance

\* C5 (as stated): every attempt to set or delete an attribute of a built
\* instance fails, so its parameter values never change.
C5_EveryAssignmentFails ==
    last.op \in {"__setattr__", "__delattr__"}
    => /\ last.err = "LookupError"
       /\ self.dict = last.before.dict

\* C5 (amended): no attribute of a built instance is ever added or removed,
\* and a value changes only by a successful assignment to a name listed in
\* required_parameters, which rebinds exactly that parameter.
C5_OnlyDeclaredRebound ==
    last.op \in {"__setattr__", "__delattr__"}
    => /\ self.cls = last.before.cls
       /\ DOMAIN self.dict = DOMAIN last.before.dict
       /\ \A n \in DOMAIN self.dict :
            self.dict[n] # last.before.dict[n]
            => /\ last.op = "__setattr__"
               /\ last.err = "none"
               /\ n = last.name
               /\ n \in ParamNames(self.cls)
               /\ self.dict[n] = last.val
       /\ (last.op = "__setattr__" /\ last.name \in ParamNames(self.cls))
            => (last.err = "none" /\ self.dict[last.name] = last.val)

C5_Witness ==
    /\ last.op = "__setattr__"
    /\ last.name \in ParamNames(self.cls)
    /\ last.err = "none"
    /\ self.dict[last.name] # last.before.dict[last.name]

\* C6: setting an attribute that is not in required_parameters raises
\* LookupError, deleting any attribute raises LookupError, and the instance
\* is afterwards exactly what it was before the attempt.
C6_UndeclaredRejected ==
    (\/ last.op = "__delattr__"
     \/ (last.op = "__setattr__" /\ last.name \notin ParamNames(last.cls)))
    => /\ last.err = "LookupError"
       /\ self = last.before

C6_Witness ==
    /\ last.op = "__setattr__"
    /\ last.name = "extra"
    /\ last.err = "LookupError"
    /\ self \in Instances

\* all parameter values of a equal the corresponding values of b
SameParams(a, b) ==
    /\ ParamNames(a.cls) = ParamNames(b.cls)
    /\ \A p \in ParamNames(a.cls) : PyValEq(a.dict[p], b.dict[p])

\* C7: a == b exactly when a and b are of the very same class and every
\* parameter value of a equals that of b; an instance of a variant and an
\* instance of a class derived from it are unequal in both operand orders.
C7_EqualIffSameClassAndParams ==
    last.op = "=="
    => /\ last.eq_result <=> (last.lhs.cls = last.rhs.cls
                              /\ SameParams(last.lhs, last.rhs))
       /\ (last.lhs.cls # last.rhs.cls
           /\ (IsSubclass(last.lhs.cls, last.rhs.cls)
               \/ IsSubclass(last.rhs.cls, last.lhs.cls)))
          => ~last.eq_result

C7_Witness ==
    /\ last.op = "=="
    /\ last.lhs.cls = "BoundCollapsingLinear"
    /\ last.rhs.cls = "BoundLinearDefaultB"
    /\ SameParams(last.lhs, last.rhs)
    /\ ~last.eq_result

\* C8: instances that compare equal have the same rendered string and the
\* same hash.
C8_EqualImpliesSameStrAndHash ==
    (last.op = "==" /\ last.eq_result)
    => /\ Dependence_str(last.lhs) = Dependence_str(last.rhs)
       /\ Dependence_hash(last.lhs) = Dependence_hash(last.rhs)

\* name=repr(value) pairs i..Len(rp), ", " between consecutive pairs only
RECURSIVE JoinPairs(_, _, _)
JoinPairs(obj, rp, i) ==
    IF i > Len(rp) THEN ""
    ELSE IF i = Len(rp) THEN rp[i] \o "=" \o PyRepr(obj.dict[rp[i]])
    ELSE rp[i] \o "=" \o PyRepr(obj.dict[rp[i]]) \o ", " \o JoinPairs(obj, rp, i + 1)

\* C9: the rendered string is the class name, "(", one name=repr(value)
\* pair per entry of required_parameters in declared order, ", " between
\* consecutive pairs and none after the last, and ")".
C9_ReprFormat ==
    last.op = "__repr__"
    => last.str_result =
          last.lhs.cls \o "("
          \o JoinPairs(last.lhs, DeclaredRequired[Owner(last.lhs.cls, "required_parameters")], 1)
          \o ")"

C9_Witness ==
    /\ last.op = "__repr__"
    /\ last.lhs.cls = "BoundLinearDefaultB"
    /\ last.str_result = "BoundLinearDefaultB(t=2, B=1.0)"

\* C10: for a collapsing_linear bound, get_bound(t) is max(B - slope*t, 0):
\* B - slope*t while that is positive, 0 from then on, never negative, and
\* the call leaves the instance unchanged.
C10_LinearClamped ==
    (last.op = "get_bound" /\ IsSubclass(last.cls, "BoundCollapsingLinear"))
    => LET x == self.dict["B"].num - self.dict["t"].num * last.t
       IN  /\ last.num_result.num = IF x > 0 THEN x ELSE 0
           /\ last.num_result.num >= 0
           /\ last.num_result.num = 0
                => \A t2 \in last.t..MaxT : get_bound(self, PyInt(t2)).num = 0
           /\ self = last.before

C10_Witness ==
    /\ last.op = "get_bound"
    /\ last.cls = "BoundCollapsingLinear"
    /\ self.dict["B"].num - self.dict["t"].num * last.t < 0
    /\ last.num_result.num = 0

====
